---- MODULE Spec2Model ----
(***************************************************************************)
(* A model of ai_wargame.py: the board and unit model, the move legality   *)
(* check, move application, move generation, the turn controller and the   *)
(* main game loop.  Operators keep the names of the Python functions they  *)
(* are translated from; a Game object is a record with the fields of the   *)
(* Game dataclass, a Coord is a pair <<row, col>>, a CoordPair is a pair   *)
(* <<src, dst>>, a Unit is a record [player, type, health].                *)
(***************************************************************************)
EXTENDS Integers, Sequences, FiniteSets, TLC

VARIABLES
    game,           \* the Game object of main: board, next_player, turns_played, has-AI flags
    options,        \* game.options: game_type, max_turns, broker
    pc,             \* main: "loop" in the game loop, "done" after the winner is
                    \* announced, "exit" after exit(1)
    success,        \* the (success, result) pair the last perform_move of a
    result,         \* turn returned
    moves_applied,  \* history: the number of perform_move calls that returned True
    previous,       \* history: the game as the last perform_move found it
    script,         \* the moves the two players at the keyboard open the game with
    stats,          \* game.stats, the Stats object every Game object shares
    search          \* the calls of the search in progress and its clock; the
                    \* game loop specification, which takes suggest_move as a
                    \* choice among the valid moves, leaves both as they start

vars == <<game, options, pc, success, result, moves_applied, previous, script,
          stats, search>>

(***************************************************************************)
(* Enumerations.                                                           *)
(***************************************************************************)
UnitType == <<"AI", "Tech", "Virus", "Program", "Firewall">>

UnitTypes == {UnitType[i] : i \in 1..Len(UnitType)}

\* UnitType.value: the position of the type in the enumeration, from 0.
TypeValue(t) == CHOOSE i \in 0..4 : UnitType[i + 1] = t

Player == {"Attacker", "Defender"}

\* Player.next
PlayerNext(p) == IF p = "Attacker" THEN "Defender" ELSE "Attacker"

GameType == {"AttackerVsDefender", "AttackerVsComp", "CompVsDefender", "CompVsComp"}

\* Python's None: for a player (has_winner), for options.broker, and for
\* options.max_turns (an integer when it is set).
NoPlayer == "None"

NoValue == "None"

NoLimit == -1

(***************************************************************************)
(* Unit.                                                                   *)
(***************************************************************************)
\* Python's None in a board cell, as a record so that cells compare.
None == [player |-> "None", type |-> "None", health |-> 0]

Unit(p, t, h) == [player |-> p, type |-> t, health |-> h]

damage_table ==
    << <<3, 3, 3, 3, 1>>,
       <<1, 1, 6, 1, 1>>,
       <<9, 6, 1, 6, 1>>,
       <<3, 3, 3, 3, 1>>,
       <<1, 1, 1, 1, 1>> >>

repair_table ==
    << <<0, 1, 1, 0, 0>>,
       <<3, 0, 0, 3, 3>>,
       <<0, 0, 0, 0, 0>>,
       <<0, 0, 0, 0, 0>>,
       <<0, 0, 0, 0, 0>> >>

\* Unit.damage_table[a.value][b.value]
DamageEntry(a, b) == damage_table[TypeValue(a) + 1][TypeValue(b) + 1]

\* Unit.repair_table[a.value][b.value]
RepairEntry(a, b) == repair_table[TypeValue(a) + 1][TypeValue(b) + 1]

is_alive(unit) == unit.health > 0

\* Unit.mod_health without the upper clamp.
Unit_mod_health_no_cap(unit, health_delta) ==
    LET h == unit.health + health_delta
    IN  [unit EXCEPT !.health = IF h < 0 THEN 0 ELSE h]

\* Unit.mod_health: add the delta, clamp to 0..9.
Unit_mod_health(unit, health_delta) ==
    LET h == unit.health + health_delta
    IN  [unit EXCEPT !.health = IF h < 0 THEN 0 ELSE IF h > 9 THEN 9 ELSE h]

(***************************************************************************)
(* Coord and CoordPair.                                                    *)
(***************************************************************************)
\* Options.dim
dim == 5

Coord(row, col) == <<row, col>>

CoordPair(src, dst) == <<src, dst>>

RowChars == <<"A", "B", "C", "D", "E", "F", "G", "H", "I", "J", "K", "L", "M",
              "N", "O", "P", "Q", "R", "S", "T", "U", "V", "W", "X", "Y", "Z">>

ColChars == <<"0", "1", "2", "3", "4", "5", "6", "7", "8", "9",
              "a", "b", "c", "d", "e", "f">>

\* Python indexing of a string: a negative index counts from the end.
PyIndex(chars, i) == IF i >= 0 THEN chars[i + 1] ELSE chars[Len(chars) + i + 1]

col_string(coord) == IF coord[2] < 16 THEN PyIndex(ColChars, coord[2]) ELSE "?"

row_string(coord) == IF coord[1] < 26 THEN PyIndex(RowChars, coord[1]) ELSE "?"

\* Coord.to_string: the two characters, row letter then column digit.
to_string(coord) == <<row_string(coord), col_string(coord)>>

\* Coord.iter_range: the rectangle of side 2*dist+1 around coord, row-major.
iter_range(coord, dist) ==
    LET w == 2 * dist + 1
    IN  [i \in 1..(w * w) |->
            Coord(coord[1] - dist + ((i - 1) \div w), coord[2] - dist + ((i - 1) % w))]

\* Coord.iter_adjacent: up, left, down, right.
iter_adjacent(coord) ==
    << Coord(coord[1] - 1, coord[2]),
       Coord(coord[1], coord[2] - 1),
       Coord(coord[1] + 1, coord[2]),
       Coord(coord[1], coord[2] + 1) >>

\* CoordPair.iter_rectangle: the cells from src to dst, row-major.
iter_rectangle(pair) ==
    LET h == pair[2][1] - pair[1][1] + 1
        w == pair[2][2] - pair[1][2] + 1
    IN  IF h <= 0 \/ w <= 0 THEN <<>>
        ELSE [i \in 1..(h * w) |->
                Coord(pair[1][1] + ((i - 1) \div w), pair[1][2] + ((i - 1) % w))]

from_dim(d) == CoordPair(Coord(0, 0), Coord(d - 1, d - 1))

\* The cells of the board.
Coords == (0..(dim - 1)) \X (0..(dim - 1))

(***************************************************************************)
(* Game: the board accessors.                                              *)
(***************************************************************************)
is_valid_coord(coord) ==
    IF coord[1] < 0 \/ coord[1] >= dim \/ coord[2] < 0 \/ coord[2] >= dim
    THEN FALSE ELSE TRUE

\* must be a valid coord
is_empty(g, coord) == g.board[coord] = None

get(g, coord) == IF is_valid_coord(coord) THEN g.board[coord] ELSE None

set(g, coord, unit) ==
    IF is_valid_coord(coord) THEN [g EXCEPT !.board[coord] = unit] ELSE g

\* Game.__post_init__: the opening layout.
InitialBoard ==
    LET md == dim - 1
        empty == [c \in Coords |-> None]
        placed == << <<Coord(0, 0), Unit("Defender", "AI", 9)>>,
                     <<Coord(1, 0), Unit("Defender", "Tech", 9)>>,
                     <<Coord(0, 1), Unit("Defender", "Tech", 9)>>,
                     <<Coord(2, 0), Unit("Defender", "Firewall", 9)>>,
                     <<Coord(0, 2), Unit("Defender", "Firewall", 9)>>,
                     <<Coord(1, 1), Unit("Defender", "Program", 9)>>,
                     <<Coord(md, md), Unit("Attacker", "AI", 9)>>,
                     <<Coord(md - 1, md), Unit("Attacker", "Virus", 9)>>,
                     <<Coord(md, md - 1), Unit("Attacker", "Virus", 9)>>,
                     <<Coord(md - 2, md), Unit("Attacker", "Program", 9)>>,
                     <<Coord(md, md - 2), Unit("Attacker", "Program", 9)>>,
                     <<Coord(md - 1, md - 1), Unit("Attacker", "Firewall", 9)>> >>
        Place[i \in 0..Len(placed)] ==
            IF i = 0 THEN empty
            ELSE IF is_valid_coord(placed[i][1])
                 THEN [Place[i - 1] EXCEPT ![placed[i][1]] = placed[i][2]]
                 ELSE Place[i - 1]
    IN  Place[Len(placed)]

\* A Game as constructed: the dataclass defaults and the opening layout.
NewGame ==
    [board |-> InitialBoard,
     next_player |-> "Attacker",
     turns_played |-> 0,
     attacker_has_ai |-> TRUE,
     defender_has_ai |-> TRUE]

\* Game.remove_dead clearing the flag of the other side.
remove_dead_other_flag(g, coord) ==
    LET unit == get(g, coord)
    IN  IF unit # None /\ ~is_alive(unit)
        THEN LET g1 == set(g, coord, None)
             IN  IF unit.type = "AI"
                 THEN IF unit.player = "Attacker"
                      THEN [g1 EXCEPT !.defender_has_ai = FALSE]
                      ELSE [g1 EXCEPT !.attacker_has_ai = FALSE]
                 ELSE g1
        ELSE g

\* A remove_dead that takes the unit away and leaves the flags alone.
remove_dead_keeps_flags(g, coord) ==
    LET unit == get(g, coord)
    IN  IF unit # None /\ ~is_alive(unit) THEN set(g, coord, None) ELSE g

\* Game.remove_dead
remove_dead(g, coord) ==
    LET unit == get(g, coord)
    IN  IF unit # None /\ ~is_alive(unit)
        THEN LET g1 == set(g, coord, None)
             IN  IF unit.type = "AI"
                 THEN IF unit.player = "Attacker"
                      THEN [g1 EXCEPT !.attacker_has_ai = FALSE]
                      ELSE [g1 EXCEPT !.defender_has_ai = FALSE]
                 ELSE g1
        ELSE g

\* Game.mod_health
mod_health(g, coord, health_delta) ==
    LET target == get(g, coord)
    IN  IF target # None
        THEN remove_dead(set(g, coord, Unit_mod_health(target, health_delta)), coord)
        ELSE g

(***************************************************************************)
(* Game: move legality.                                                    *)
(***************************************************************************)
\* The adjacency test of is_valid_move: same column and rows 1 apart, or
\* same row and columns 1 apart.
Abs(n) == IF n < 0 THEN -n ELSE n

\* An adjacency test that takes the diagonal neighbours too.
OrthAdjacent_or_diagonal(src, dst) ==
    /\ src # dst
    /\ Abs(src[1] - dst[1]) <= 1
    /\ Abs(src[2] - dst[2]) <= 1

OrthAdjacent(src, dst) ==
    \/ (src[2] = dst[2] /\ Abs(src[1] - dst[1]) = 1)
    \/ (src[1] = dst[1] /\ Abs(src[2] - dst[2]) = 1)

\* An engagement test that never finds the unit engaged.
Engaged_never(g, src) == FALSE

\* "Check if unit is engaged in combat": an adjacent cell on the board that
\* holds a unit of the player who is not to move.
Engaged(g, src) ==
    \E i \in 1..4 :
        LET coord == iter_adjacent(src)[i]
        IN  is_valid_coord(coord) /\ ~is_empty(g, coord)
            /\ get(g, coord).player # g.next_player

\* The restricted kinds without the Program.
RestrictedType_no_program(t) == t = "AI" \/ t = "Firewall"

RestrictedType(t) == t = "AI" \/ t = "Firewall" \/ t = "Program"

\* Game.is_valid_move
is_valid_move(g, coords) ==
    LET src == coords[1]
        dst == coords[2]
    IN  IF ~is_valid_coord(src) \/ ~is_valid_coord(dst) THEN FALSE
        ELSE LET s == get(g, src)
                 unit == get(g, dst)
             IN  IF s = None \/ s.player # g.next_player THEN FALSE
                 \* self-destruct
                 ELSE IF src = dst THEN TRUE
                 \* attack
                 ELSE IF unit # None /\ unit.player # g.next_player
                      THEN OrthAdjacent(src, dst)
                 \* repair
                 ELSE IF unit # None /\ unit.player = g.next_player
                      THEN IF OrthAdjacent(src, dst)
                           THEN IF unit.health = 9 THEN FALSE
                                ELSE IF s.type = "AI"
                                        /\ (unit.type = "Virus" \/ unit.type = "Tech")
                                     THEN TRUE
                                ELSE IF s.type = "Tech"
                                        /\ (unit.type = "AI" \/ unit.type = "Firewall"
                                            \/ unit.type = "Program")
                                     THEN TRUE
                                ELSE FALSE
                           ELSE FALSE
                 \* movement of a Defender's AI, Firewall or Program: down or right
                 ELSE IF s.player = "Defender" /\ RestrictedType(s.type)
                      THEN IF Engaged(g, src) THEN FALSE
                           ELSE \/ dst = Coord(src[1] + 1, src[2])
                                \/ dst = Coord(src[1], src[2] + 1)
                 \* movement of an Attacker's AI, Firewall or Program: up or left
                 ELSE IF s.player = "Attacker" /\ RestrictedType(s.type)
                      THEN IF Engaged(g, src) THEN FALSE
                           ELSE \/ dst = Coord(src[1] - 1, src[2])
                                \/ dst = Coord(src[1], src[2] - 1)
                 \* Tech and Virus: any of the four orthogonal steps
                 ELSE \/ dst = Coord(src[1] - 1, src[2])
                      \/ dst = Coord(src[1], src[2] - 1)
                      \/ dst = Coord(src[1] + 1, src[2])
                      \/ dst = Coord(src[1], src[2] + 1)

(***************************************************************************)
(* Game: move application.  perform_move returns the game after the call   *)
(* and the (success, text) pair; the text is the sequence of the pieces    *)
(* the Python string is concatenated from.                                 *)
(***************************************************************************)
Outcome(g, ok, msg) == [game |-> g, ok |-> ok, msg |-> msg]

\* A variant of BlastLoop that damages the four orthogonal neighbours only.
BlastLoop_orthogonal(g, src) ==
    LET cells == iter_adjacent(src)
        Step[i \in 0..Len(cells)] ==
            IF i = 0 THEN [game |-> g, total_damage |-> 0]
            ELSE LET prev == Step[i - 1]
                     coord == cells[i]
                 IN  IF is_valid_coord(coord) /\ ~is_empty(prev.game, coord)
                     THEN [game |-> mod_health(prev.game, coord, -2),
                           total_damage |-> prev.total_damage + 2]
                     ELSE prev
    IN  Step[Len(cells)]

\* The loop of the self-destruct branch over src.iter_range(1): every
\* occupied cell of the board in the block loses 2, and total_damage grows
\* by 2 for each.
BlastLoop(g, src) ==
    LET cells == iter_range(src, 1)
        Step[i \in 0..Len(cells)] ==
            IF i = 0 THEN [game |-> g, total_damage |-> 0]
            ELSE LET prev == Step[i - 1]
                     coord == cells[i]
                 IN  IF is_valid_coord(coord) /\ ~is_empty(prev.game, coord)
                     THEN [game |-> mod_health(prev.game, coord, -2),
                           total_damage |-> prev.total_damage + 2]
                     ELSE prev
    IN  Step[Len(cells)]

\* A movement after which the unit is a Virus.
movement_converts(g, coords) ==
    Outcome(set(set(g, coords[2], [get(g, coords[1]) EXCEPT !.type = "Virus"]),
                coords[1], None), TRUE,
            <<"move from ", to_string(coords[1]), " to ", to_string(coords[2])>>)

\* A movement that leaves the unit on its source cell too.
movement_copy(g, coords) ==
    Outcome(set(g, coords[2], get(g, coords[1])), TRUE,
            <<"move from ", to_string(coords[1]), " to ", to_string(coords[2])>>)

\* perform_move, "Movement": the destination holds no unit.
movement(g, coords) ==
    Outcome(set(set(g, coords[2], get(g, coords[1])), coords[1], None), TRUE,
            <<"move from ", to_string(coords[1]), " to ", to_string(coords[2])>>)

\* perform_move, "Self-destruct": source and destination are the same.
self_destruct(g, coords) ==
    LET blast == BlastLoop(mod_health(g, coords[1], -9), coords[1])
    IN  Outcome(blast.game, TRUE,
                <<"self-destruct at ", to_string(coords[1]),
                  "self-destructed for ", blast.total_damage, " total damage">>)

\* A repair that heals the repairing unit as well as the target.
repair_both(g, coords) ==
    LET repair_amount == RepairEntry(get(g, coords[1]).type, get(g, coords[2]).type)
    IN  Outcome(mod_health(mod_health(g, coords[2], repair_amount), coords[1], repair_amount),
                TRUE,
                <<"repair from ", to_string(coords[1]), " to ", to_string(coords[2]),
                  "repaired ", repair_amount, " health points">>)

\* perform_move, "Repair": source and destination belong to the same player.
repair(g, coords) ==
    LET repair_amount == RepairEntry(get(g, coords[1]).type, get(g, coords[2]).type)
    IN  Outcome(mod_health(g, coords[2], repair_amount), TRUE,
                <<"repair from ", to_string(coords[1]), " to ", to_string(coords[2]),
                  "repaired ", repair_amount, " health points">>)

\* A variant of attack with sequential combat: a target that dies does not
\* strike back.
attack_sequential(g, coords) ==
    LET dst_dmg == DamageEntry(get(g, coords[1]).type, get(g, coords[2]).type)
        src_dmg == DamageEntry(get(g, coords[2]).type, get(g, coords[1]).type)
        g1 == mod_health(g, coords[2], -dst_dmg)
    IN  Outcome(IF get(g1, coords[2]) = None THEN g1
                ELSE mod_health(g1, coords[1], -src_dmg),
                TRUE,
                <<"attack from ", to_string(coords[1]), " to ", to_string(coords[2]),
                  "combat damage: to source =  ", src_dmg,
                  ", to target = ", dst_dmg>>)

\* perform_move, "Attack": source and destination belong to opposing players.
attack(g, coords) ==
    LET dst_dmg == DamageEntry(get(g, coords[1]).type, get(g, coords[2]).type)
        src_dmg == DamageEntry(get(g, coords[2]).type, get(g, coords[1]).type)
    IN  Outcome(mod_health(mod_health(g, coords[2], -dst_dmg), coords[1], -src_dmg),
                TRUE,
                <<"attack from ", to_string(coords[1]), " to ", to_string(coords[2]),
                  "combat damage: to source =  ", src_dmg,
                  ", to target = ", dst_dmg>>)

\* A variant of perform_move that checks only that the source is a unit of
\* the player to move, not the legality of the pair.
perform_move_unchecked(g, coords) ==
    IF /\ is_valid_coord(coords[1]) /\ is_valid_coord(coords[2])
       /\ get(g, coords[1]) # None /\ get(g, coords[1]).player = g.next_player
    THEN IF get(g, coords[2]) = None THEN movement(g, coords)
         ELSE IF coords[1] = coords[2] THEN self_destruct(g, coords)
         ELSE IF get(g, coords[1]).player = get(g, coords[2]).player
              THEN repair(g, coords)
         ELSE attack(g, coords)
    ELSE Outcome(g, FALSE, <<"invalid move">>)

\* Game.perform_move
perform_move(g, coords) ==
    IF is_valid_move(g, coords)
    THEN IF get(g, coords[2]) = None THEN movement(g, coords)
         ELSE IF coords[1] = coords[2] THEN self_destruct(g, coords)
         ELSE IF get(g, coords[1]).player = get(g, coords[2]).player
              THEN repair(g, coords)
         ELSE attack(g, coords)
    ELSE Outcome(g, FALSE, <<"invalid move">>)

\* A next_turn that passes the turn without counting it.
next_turn_uncounted(g) == [g EXCEPT !.next_player = PlayerNext(g.next_player)]

\* Game.next_turn
next_turn(g) ==
    [g EXCEPT !.next_player = PlayerNext(g.next_player),
              !.turns_played = g.turns_played + 1]

\* Game.has_winner looking at the flags before the turn limit.
has_winner_flags_first(g, opts) ==
    IF g.attacker_has_ai
    THEN IF g.defender_has_ai
         THEN IF opts.max_turns # NoLimit /\ g.turns_played >= opts.max_turns
              THEN "Defender"
              ELSE NoPlayer
         ELSE "Attacker"
    ELSE "Defender"

\* Game.has_winner never looking at the defender's flag.
has_winner_ignores_defender(g, opts) ==
    IF opts.max_turns # NoLimit /\ g.turns_played >= opts.max_turns THEN "Defender"
    ELSE IF g.attacker_has_ai THEN NoPlayer ELSE "Defender"

\* Game.has_winner looking at the defender's flag first.
has_winner_defender_first(g, opts) ==
    IF opts.max_turns # NoLimit /\ g.turns_played >= opts.max_turns THEN "Defender"
    ELSE IF g.defender_has_ai
         THEN IF g.attacker_has_ai THEN NoPlayer ELSE "Defender"
         ELSE "Attacker"

\* Game.has_winner
has_winner(g, opts) ==
    IF opts.max_turns # NoLimit /\ g.turns_played >= opts.max_turns THEN "Defender"
    ELSE IF g.attacker_has_ai
         THEN IF g.defender_has_ai THEN NoPlayer ELSE "Attacker"
         ELSE "Defender"

\* Game.is_finished
is_finished(g, opts) == has_winner(g, opts) # NoPlayer

(***************************************************************************)
(* Game: move generation.                                                  *)
(***************************************************************************)
\* Game.player_units: the coordinates of the player's units, in the
\* row-major order of the scan.
player_units(g, player) ==
    LET Mine(coord) == get(g, coord) # None /\ get(g, coord).player = player
    IN  SelectSeq(iter_rectangle(from_dim(dim)), Mine)

\* A variant of move_candidates that forgets the destination to the right.
move_candidates_no_right(g) ==
    LET units == player_units(g, g.next_player)
        Valid(dst_pair) == is_valid_move(g, dst_pair)
        OfUnit(src) ==
            SelectSeq([i \in 1..3 |-> CoordPair(src, iter_adjacent(src)[i])], Valid)
                \o <<CoordPair(src, src)>>
        Gen[i \in 0..Len(units)] ==
            IF i = 0 THEN <<>> ELSE Gen[i - 1] \o OfUnit(units[i])
    IN  Gen[Len(units)]

\* Game.move_candidates: for each unit of the player to move, the adjacent
\* destinations that are valid moves, then the self-destruct.
move_candidates(g) ==
    LET units == player_units(g, g.next_player)
        Valid(dst_pair) == is_valid_move(g, dst_pair)
        OfUnit(src) ==
            SelectSeq([i \in 1..4 |-> CoordPair(src, iter_adjacent(src)[i])], Valid)
                \o <<CoordPair(src, src)>>
        Gen[i \in 0..Len(units)] ==
            IF i = 0 THEN <<>> ELSE Gen[i - 1] \o OfUnit(units[i])
    IN  Gen[Len(units)]

\* Game.generate_valid_moves
generate_valid_moves(g) ==
    LET Valid(move) == is_valid_move(g, move)
    IN  SelectSeq(move_candidates(g), Valid)

(***************************************************************************)
(* Game: the heuristics.                                                   *)
(***************************************************************************)
Heuristic == {"E0", "E1", "E2"}

\* The unit_values dictionary of Game.e0, in the order of UnitType.
e0_unit_values == <<9999, 3, 3, 3, 3>>

\* The unit_values dictionary of Game.e1, in the order of UnitType.
e1_unit_values == <<9999, 500, 500, 300, 50>>

\* The counting loop shared by Game.e0 and Game.e1: how many units of each
\* type the player has on the board.
player_counts(g, player) ==
    LET cells == iter_rectangle(from_dim(dim))
        Count[i \in 0..Len(cells)] ==
            IF i = 0 THEN [t \in UnitTypes |-> 0]
            ELSE LET unit == get(g, cells[i])
                 IN  IF unit # None /\ unit.player = player
                     THEN [Count[i - 1] EXCEPT ![unit.type] = @ + 1]
                     ELSE Count[i - 1]
    IN  Count[Len(cells)]

\* sum(unit_values[unit_type] * counts[unit_type] for unit_type in UnitType)
weighted_sum(unit_values, counts) ==
    LET Sum[i \in 0..Len(UnitType)] ==
            IF i = 0 THEN 0
            ELSE Sum[i - 1] + unit_values[i] * counts[UnitType[i]]
    IN  Sum[Len(UnitType)]

\* Game.e0
e0(g) ==
    weighted_sum(e0_unit_values, player_counts(g, "Attacker"))
        - weighted_sum(e0_unit_values, player_counts(g, "Defender"))

\* Game.e1 weighing the units as Game.e0 does.
e1_flat(g) == e0(g)

\* Game.e1
e1(g) ==
    weighted_sum(e1_unit_values, player_counts(g, "Attacker"))
        - weighted_sum(e1_unit_values, player_counts(g, "Defender"))

\* Game.e2: the health of every unit, the AI's times 9999, added for the
\* attacker and subtracted for the defender.
e2(g) ==
    LET cells == iter_rectangle(from_dim(dim))
        Val[i \in 0..Len(cells)] ==
            IF i = 0 THEN 0
            ELSE LET unit == get(g, cells[i])
                 IN  IF unit # None
                     THEN IF unit.player = "Attacker"
                          THEN IF unit.type = "AI"
                               THEN Val[i - 1] + unit.health * 9999
                               ELSE Val[i - 1] + unit.health
                          ELSE IF unit.type = "AI"
                               THEN Val[i - 1] - unit.health * 9999
                               ELSE Val[i - 1] - unit.health
                     ELSE Val[i - 1]
    IN  Val[Len(cells)]

\* Game.e: the heuristic the options select.
e(g, opts) ==
    IF opts.heuristic = "E1" THEN e1(g)
    ELSE IF opts.heuristic = "E2" THEN e2(g)
    ELSE e0(g)

(***************************************************************************)
(* The turn controller.                                                 *)
(***************************************************************************)
\* No move: the None of suggest_move and of get_move_from_broker.
NoMove == <<>>

\* Game.human_turn calling next_turn whether the move was applied or not.
human_turn_always_next(g, mv) ==
    LET out == perform_move(g, mv)
    IN  [out EXCEPT !.game = next_turn(out.game)]

\* One pass of the retry loop of Game.human_turn with the move mv in hand
\* (read from the keyboard or got from the broker): perform_move, and
\* next_turn when it succeeded.
human_turn(g, mv) ==
    LET out == perform_move(g, mv)
    IN  [out EXCEPT !.game = IF out.ok THEN next_turn(out.game) ELSE out.game]

\* Game.computer_turn with the move mv that suggest_move returned.
computer_turn(g, mv) ==
    IF mv # NoMove
    THEN LET out == perform_move(g, mv)
         IN  [out EXCEPT !.game = IF out.ok THEN next_turn(out.game) ELSE out.game]
    ELSE Outcome(g, FALSE, <<>>)

\* The broker's reply when there is no move to read: no data, an error
\* status or an exception.
NoData == [from |-> <<>>, to |-> <<>>, turn |-> -1]

\* Game.get_move_from_broker without the test of the turn field.
get_move_from_broker_any_turn(g, opts, data) ==
    IF opts.broker = NoValue THEN NoMove
    ELSE IF data # NoData THEN CoordPair(data.from, data.to) ELSE NoMove

\* Game.get_move_from_broker on the reply data of the broker: the move, or
\* NoMove.
get_move_from_broker(g, opts, data) ==
    IF opts.broker = NoValue THEN NoMove
    ELSE IF data # NoData
         THEN IF data.turn = g.turns_played + 1
              THEN CoordPair(data.from, data.to)
              ELSE NoMove
         ELSE NoMove

\* The moves Game.suggest_move can return.  The search picks its move among
\* current_game.generate_valid_moves() of the root (a clone of the live
\* game), and which one depends on the wall clock through the time cutoff;
\* it returns None when the cutoff fires at the root or no move is valid.
suggest_move(g) ==
    {NoMove} \cup {generate_valid_moves(g)[i] : i \in 1..Len(generate_valid_moves(g))}

(***************************************************************************)
(* The search.  suggest_move, random_move and alphabeta run one step at a  *)
(* time on the variable search: the stack of the calls in progress, one    *)
(* frame per node, and the boards of the Game objects alive.  A Game       *)
(* object of the search is a Game record whose board field is an index in  *)
(* search.boards, so that two objects can share a board as two Python      *)
(* objects can; board 1 is the board of the live game.                     *)
(***************************************************************************)
MAX_HEURISTIC_SCORE == 2000000000

MIN_HEURISTIC_SCORE == -2000000000

\* float('inf') and -float('inf'): beyond every score.
PlusInf == 2147483647

MinusInf == -PlusInf

\* The depths suggest_move starts random_move and alphabeta with.
MinimaxDepth == 6

AlphaBetaDepth == 10

\* The 0.01 second the time test keeps in reserve, in clock units.
Margin == 1

\* The keys Stats.evaluations_per_depth can get; 0 stands for an absent key.
Levels == 1..(AlphaBetaDepth + 1)

\* Stats()
NewStats == [evaluations_per_depth |-> [k \in Levels |-> 0], total_seconds |-> 0]

\* The live game as an object of the search.
LiveObject(g) == [g EXCEPT !.board = 1]

\* The Game object obj as a value: its fields, with the board it refers to.
deref(obj, boards) == [obj EXCEPT !.board = boards[@]]

\* Game.clone keeping the board of the original: a shallow copy only.
clone_shallow(self, boards) == [new |-> self, boards |-> boards]

\* Game.clone: a new Game object with the fields of self and a new board
\* with the units of self's board.
clone(self, boards) ==
    [new |-> [self EXCEPT !.board = Len(boards) + 1],
     boards |-> Append(boards, boards[self.board])]

\* obj.perform_move(move): the object and its board change in place.
perform_move_in(obj, move, boards) ==
    LET out == perform_move(deref(obj, boards), move)
    IN  [obj |-> [out.game EXCEPT !.board = obj.board],
         boards |-> [boards EXCEPT ![obj.board] = out.game.board]]

\* The boards left when the objects of the frames in stack and the live game
\* are the only ones alive: the last board goes with the object that owned
\* it.
collect(boards, stack) ==
    IF Len(boards) > 1 /\ \A k \in 1..Len(stack) : stack[k].current_game.board # Len(boards)
    THEN SubSeq(boards, 1, Len(boards) - 1)
    ELSE boards

\* The leaf test testing the node's own snapshot for the end of the game.
is_leaf_own_snapshot(self, current_game, depth, elapsed_seconds, opts) ==
    \/ is_finished(current_game, opts)
    \/ depth = 0
    \/ elapsed_seconds >= opts.max_time - Margin

\* The leaf test without the time test.
is_leaf_untimed(self, current_game, depth, elapsed_seconds, opts) ==
    \/ is_finished(self, opts)
    \/ depth = 0

\* The leaf test of random_move and alphabeta: self is the object the method
\* was called on, current_game the snapshot of the node.
is_leaf(self, current_game, depth, elapsed_seconds, opts) ==
    \/ is_finished(self, opts)
    \/ depth = 0
    \/ elapsed_seconds >= opts.max_time - Margin

\* eval > max_eval for the maximizer, eval < min_eval for the minimizer.
improves(maximize, eval, best_eval) ==
    IF maximize THEN eval > best_eval ELSE eval < best_eval

Max(a, b) == IF a >= b THEN a ELSE b

Min(a, b) == IF a <= b THEN a ELSE b

\* A cut-off test that compares with the side's own bound.
cuts_off_own_bound(maximize, best_eval, alpha, beta) ==
    IF maximize THEN best_eval >= alpha ELSE best_eval <= beta

\* The break of alphabeta: max_eval >= beta for the maximizer, min_eval <=
\* alpha for the minimizer.
cuts_off(maximize, best_eval, alpha, beta) ==
    IF maximize THEN best_eval >= beta ELSE best_eval <= alpha

\* The frame of a call that forgets the level of the caller.
Call_from_root(current_game, depth, alpha, beta, maximize, current_depth) ==
    [current_game |-> current_game, depth |-> depth, alpha |-> alpha, beta |-> beta,
     maximize |-> maximize, current_depth |-> 0,
     at |-> "head", moves |-> <<>>, next |-> 1, eval |-> 0, best_move |-> NoMove,
     break |-> FALSE, entry |-> <<>>]

\* The frame of a call random_move(current_game, depth, maximize, ...) or
\* alphabeta(current_game, depth, alpha, beta, maximize, ...) that has not
\* run yet.  entry is history: the snapshot as the loop of the node found it.
Call(current_game, depth, alpha, beta, maximize, current_depth) ==
    [current_game |-> current_game, depth |-> depth, alpha |-> alpha, beta |-> beta,
     maximize |-> maximize, current_depth |-> current_depth,
     at |-> "head", moves |-> <<>>, next |-> 1, eval |-> 0, best_move |-> NoMove,
     break |-> FALSE, entry |-> <<>>]

\* No search in progress.  The fields after pace are history: the score and
\* the move of the last search, the number of nodes it visited, whether the
\* time test has been true at a node, whether a node was expanded after
\* that, whether a node whose own snapshot is a finished game was expanded;
\* minimax_score holds the score random_move gave the position when alphabeta
\* is run after it for comparison; visited_before is the number of nodes the
\* earlier searches of the game visited.
Idle ==
    [stack |-> <<>>, boards |-> <<>>, ret |-> <<>>, algorithm |-> "none",
     depth |-> 0, start_time |-> 0, now |-> 0, pace |-> 0,
     score |-> 0, move |-> NoMove, visits |-> 0, minimax_score |-> <<>>,
     timed_out |-> FALSE, expanded_late |-> FALSE, expanded_finished |-> FALSE,
     visited_before |-> 0]

\* The search started with maximize set for the player who is not to move.
Started_for_the_other_side(g, algorithm, depth, now, pace) ==
    LET root == clone(LiveObject(g), <<g.board>>)
        maximize == IF g.next_player = "Attacker" THEN FALSE ELSE TRUE
    IN  [Idle EXCEPT
            !.stack = <<Call(root.new, depth, MIN_HEURISTIC_SCORE, MAX_HEURISTIC_SCORE,
                             maximize, 0)>>,
            !.boards = root.boards,
            !.algorithm = algorithm,
            !.depth = depth,
            !.start_time = now,
            !.now = now,
            !.pace = pace]

\* The search started with the depth the options give.
Started_at_max_depth(g, algorithm, depth, now, pace) ==
    LET root == clone(LiveObject(g), <<g.board>>)
        maximize == IF g.next_player = "Attacker" THEN TRUE ELSE FALSE
    IN  [Idle EXCEPT
            !.stack = <<Call(root.new, options.max_depth, MIN_HEURISTIC_SCORE,
                             MAX_HEURISTIC_SCORE, maximize, 0)>>,
            !.boards = root.boards,
            !.algorithm = algorithm,
            !.depth = options.max_depth,
            !.start_time = now,
            !.now = now,
            !.pace = pace]

\* The search as the call algorithm(self.clone(), depth, ...) of suggest_move
\* starts it on the live game g, the clock reading now.
Started(g, algorithm, depth, now, pace) ==
    LET root == clone(LiveObject(g), <<g.board>>)
        maximize == IF g.next_player = "Attacker" THEN TRUE ELSE FALSE
    IN  [Idle EXCEPT
            !.stack = <<Call(root.new, depth, MIN_HEURISTIC_SCORE, MAX_HEURISTIC_SCORE,
                             maximize, 0)>>,
            !.boards = root.boards,
            !.algorithm = algorithm,
            !.depth = depth,
            !.start_time = now,
            !.now = now,
            !.pace = pace]

\* The object a frame's method was called on: the live game for the root,
\* the snapshot of the calling node for another node.
SelfOf(s, g, k) ==
    IF k = 1 THEN [g EXCEPT !.board = s.boards[1]]
    ELSE deref(s.stack[k - 1].current_game, s.boards)

\* The head of random_move and alphabeta, up to the test that makes the node
\* a leaf: the state of the search and of the statistics after it.
head(s, st, g, opts) ==
    LET k == Len(s.stack)
        f == s.stack[k]
        current_depth == f.current_depth + 1
        elapsed_seconds == s.now - s.start_time
        snapshot == deref(f.current_game, s.boards)
        leaf == is_leaf(SelfOf(s, g, k), snapshot, f.depth, elapsed_seconds, opts)
        player == IF f.maximize THEN "Attacker" ELSE "Defender"
        current_game == [f.current_game EXCEPT !.next_player = player]
        seen == [s EXCEPT
                    !.now = @ + s.pace,
                    !.visits = @ + 1,
                    !.timed_out = @ \/ elapsed_seconds >= opts.max_time - Margin,
                    !.expanded_late = @ \/ (s.timed_out /\ ~leaf),
                    !.expanded_finished = @ \/ (~leaf /\ is_finished(snapshot, opts))]
    IN  [stats |-> [st EXCEPT !.evaluations_per_depth[current_depth] = @ + 1],
         search |->
            IF leaf
            THEN [seen EXCEPT
                    !.stack = SubSeq(s.stack, 1, k - 1),
                    !.boards = collect(s.boards, SubSeq(s.stack, 1, k - 1)),
                    !.ret = <<[score |-> e(snapshot, opts), move |-> NoMove,
                               depth |-> f.depth]>>]
            ELSE [seen EXCEPT
                    !.stack[k] = [f EXCEPT
                        !.current_game = current_game,
                        !.current_depth = current_depth,
                        !.at = "loop",
                        !.moves = generate_valid_moves(deref(current_game, s.boards)),
                        !.eval = IF f.maximize THEN MinusInf ELSE PlusInf,
                        !.entry = <<deref(current_game, s.boards)>>]]]

\* The loop of random_move and alphabeta taking its next move: the clone,
\* the move performed on it, and the recursive call.
descend(s) ==
    LET k == Len(s.stack)
        f == s.stack[k]
        game_clone == clone(f.current_game, s.boards)
        moved == perform_move_in(game_clone.new, f.moves[f.next], game_clone.boards)
    IN  [s EXCEPT
            !.stack = Append(@, Call(moved.obj, f.depth - 1, f.alpha, f.beta,
                                     ~f.maximize, f.current_depth)),
            !.boards = moved.boards]

\* The loop after the recursive call has returned: the best evaluation and
\* move so far and, in alphabeta, the bound and the break.
resume(s) ==
    LET k == Len(s.stack)
        f == s.stack[k]
        eval == s.ret[1].score
        better == improves(f.maximize, eval, f.eval)
        best_eval == IF better THEN eval ELSE f.eval
        alpha == IF f.maximize THEN Max(f.alpha, best_eval) ELSE f.alpha
        beta == IF f.maximize THEN f.beta ELSE Min(f.beta, best_eval)
        pruning == s.algorithm = "alphabeta"
    IN  [s EXCEPT
            !.ret = <<>>,
            !.stack[k] = [f EXCEPT
                !.eval = best_eval,
                !.best_move = IF better THEN f.moves[f.next] ELSE f.best_move,
                !.alpha = IF pruning THEN alpha ELSE f.alpha,
                !.beta = IF pruning THEN beta ELSE f.beta,
                !.break = pruning /\ cuts_off(f.maximize, best_eval, alpha, beta),
                !.next = f.next + 1]]

\* The return of random_move and alphabeta after the loop.
leave(s) ==
    LET k == Len(s.stack)
        f == s.stack[k]
    IN  [s EXCEPT
            !.stack = SubSeq(s.stack, 1, k - 1),
            !.boards = collect(s.boards, SubSeq(s.stack, 1, k - 1)),
            !.ret = <<[score |-> f.eval, move |-> f.best_move, depth |-> f.depth]>>]

(***************************************************************************)
(* Bounds of the model and the inputs.                                     *)
(***************************************************************************)
\* The number of turns played freely after the scripted opening.
MaxFree == 2

\* The largest health delta, up or down, handed to mod_health.
MaxDelta == 10

\* Options.max_turns as the dataclass sets it.
DefaultMaxTurns == 100

\* Two scripted lines of play from the opening layout.  In Skirmish the
\* sides meet in the middle of the board: a Program and a Virus, and a
\* Firewall and a Program, have fought, and a Tech stands between a damaged
\* Program, an enemy and a free cell.
Skirmish ==
    << <<Coord(4, 2), Coord(4, 1)>>, <<Coord(1, 1), Coord(1, 2)>>,
       <<Coord(4, 1), Coord(3, 1)>>, <<Coord(0, 1), Coord(1, 1)>>,
       <<Coord(4, 3), Coord(4, 2)>>, <<Coord(0, 2), Coord(0, 3)>>,
       <<Coord(4, 2), Coord(3, 2)>>, <<Coord(0, 3), Coord(1, 3)>>,
       <<Coord(3, 2), Coord(2, 2)>>, <<Coord(1, 2), Coord(2, 2)>>,
       <<Coord(3, 1), Coord(2, 1)>>, <<Coord(2, 0), Coord(2, 1)>> >>

\* In Endgame each side self-destructs its three units next to its AI, the
\* two AIs walk up to each other, a Program comes beside the defender's AI
\* and a Firewall self-destructs beside the two AIs: both AIs are left with
\* health 1, next to each other.
Endgame ==
    << <<Coord(3, 4), Coord(3, 4)>>, <<Coord(0, 1), Coord(0, 1)>>,
       <<Coord(4, 3), Coord(4, 3)>>, <<Coord(1, 0), Coord(1, 0)>>,
       <<Coord(3, 3), Coord(3, 3)>>, <<Coord(1, 1), Coord(1, 1)>>,
       <<Coord(4, 4), Coord(3, 4)>>, <<Coord(0, 0), Coord(1, 0)>>,
       <<Coord(3, 4), Coord(3, 3)>>, <<Coord(1, 0), Coord(1, 1)>>,
       <<Coord(3, 3), Coord(3, 2)>>, <<Coord(1, 1), Coord(1, 2)>>,
       <<Coord(2, 4), Coord(1, 4)>>, <<Coord(2, 0), Coord(2, 1)>>,
       <<Coord(1, 4), Coord(1, 3)>>, <<Coord(0, 2), Coord(0, 3)>>,
       <<Coord(3, 2), Coord(2, 2)>>, <<Coord(2, 1), Coord(2, 1)>> >>

\* The scripted openings: the game is played freely from the opening layout
\* and from the end of each line.
Openings == {<<>>, Skirmish, Endgame}

\* What a player may type or a broker may send: a source on the board (or
\* one of a few cells off it), and a destination at one of these offsets
\* from the source.
OffBoard == {<<-1, 0>>, <<0, -1>>, <<dim, 2>>, <<2, dim>>}

Offsets ==
    {<<0, 0>>, <<-1, 0>>, <<0, -1>>, <<1, 0>>, <<0, 1>>, <<-1, 1>>, <<2, 0>>}

InputPairs ==
    {CoordPair(s, Coord(s[1] + o[1], s[2] + o[2])) : s \in Coords \cup OffBoard, o \in Offsets}

\* Game.read_move returns only pairs with both coordinates on the board;
\* during the scripted opening the player types the next move of the script.
read_move ==
    IF game.turns_played < Len(script)
    THEN {script[game.turns_played + 1]}
    ELSE {coords \in InputPairs : is_valid_coord(coords[1]) /\ is_valid_coord(coords[2])}

\* The replies of the broker: no data, or a move for this turn or another.
BrokerReplies ==
    {NoData} \cup
    {[from |-> coords[1], to |-> coords[2], turn |-> game.turns_played + d] :
        coords \in InputPairs, d \in {0, 1}}

\* The options a game is started with: Options() with game_type, max_turns
\* and broker as the command line can set them.  The scripted openings are
\* typed by two players at the keyboard.
Options(gt, mt, br) == [game_type |-> gt, max_turns |-> mt, broker |-> br]

OptionChoices(k) ==
    IF k = 0
    THEN {Options("AttackerVsDefender", DefaultMaxTurns, NoValue),
          Options("AttackerVsDefender", 1, "url"),
          Options("AttackerVsComp", 2, NoValue),
          Options("CompVsDefender", 2, "url"),
          Options("CompVsComp", 2, NoValue)}
    ELSE {Options("AttackerVsDefender", mt, NoValue) : mt \in {DefaultMaxTurns, k + 1}}

(***************************************************************************)
(* The game loop of main.                                                  *)
(***************************************************************************)
Init ==
    /\ game = NewGame
    /\ script \in Openings
    /\ options \in OptionChoices(Len(script))
    /\ pc = "loop"
    /\ success = FALSE
    /\ result = <<>>
    /\ moves_applied = 0
    /\ previous = NewGame
    /\ stats = NewStats
    /\ search = Idle

\* The loop goes on: nobody has won, and the model's bound is not reached.
Playing ==
    /\ pc = "loop"
    /\ has_winner(game, options) = NoPlayer
    /\ game.turns_played < Len(script) + MaxFree

\* main's choice between human_turn and computer_turn.
HumanToMove ==
    \/ options.game_type = "AttackerVsDefender"
    \/ options.game_type = "AttackerVsComp" /\ game.next_player = "Attacker"
    \/ options.game_type = "CompVsDefender" /\ game.next_player = "Defender"

Record(out) ==
    /\ game' = out.game
    /\ success' = out.ok
    /\ result' = out.msg
    /\ moves_applied' = IF out.ok THEN moves_applied + 1 ELSE moves_applied
    /\ previous' = game

\* human_turn at the keyboard: one move read and tried.
HumanTurn ==
    /\ Playing
    /\ HumanToMove
    /\ options.broker = NoValue
    /\ \E mv \in read_move : Record(human_turn(game, mv))
    /\ UNCHANGED <<options, pc, script, stats, search>>

\* human_turn with a broker: one reply of the broker, tried when it is a
\* move for this turn.
BrokerTurn ==
    /\ Playing
    /\ HumanToMove
    /\ options.broker # NoValue
    /\ \E data \in BrokerReplies :
        LET mv == get_move_from_broker(game, options, data)
        IN  IF mv # NoMove
            THEN Record(human_turn(game, mv))
            ELSE UNCHANGED <<game, success, result, moves_applied, previous>>
    /\ UNCHANGED <<options, pc, script, stats, search>>

\* computer_turn; main exits when it returns no move.
ComputerTurn ==
    /\ Playing
    /\ ~HumanToMove
    /\ \E mv \in suggest_move(game) :
        IF mv # NoMove
        THEN /\ Record(computer_turn(game, mv))
             /\ pc' = pc
        ELSE /\ pc' = "exit"
             /\ UNCHANGED <<game, success, result, moves_applied, previous>>
    /\ UNCHANGED <<options, script, stats, search>>

\* main announces the winner and leaves the loop.
GameOver ==
    /\ pc = "loop"
    /\ has_winner(game, options) # NoPlayer
    /\ pc' = "done"
    /\ UNCHANGED <<game, options, success, result, moves_applied, previous, script,
                   stats, search>>

Next == HumanTurn \/ BrokerTurn \/ ComputerTurn \/ GameOver

Spec == Init /\ [][Next]_vars

\* A step of the loop in which a move is applied.
MoveApplied == moves_applied' = moves_applied + 1

\* Every turn ends up applying a move: the player types a legal move, the
\* broker sends one, the search returns one.  This is weak fairness of the
\* turns that apply a move, []<>(~ENABLED <<A>>_vars) \/ []<><<A>>_vars, with
\* Playing for ENABLED: a turn can be taken as long as the loop goes on.
FairSpec == Spec /\ ([]<>(~Playing) \/ []<><<MoveApplied>>_vars)

(***************************************************************************)
(* The search of the computer's move, step by step.  The position is set   *)
(* up by the moves of an opening as two players at the keyboard play them, *)
(* then the computer plays: suggest_move starts the search, the nodes run  *)
(* one step at a time, and computer_turn performs the move returned.       *)
(***************************************************************************)
\* The largest Options.max_time, in clock units; the time test of a search
\* is true from the first node at the smallest, after max_time - Margin
\* nodes at most otherwise.
MaxTime == 3

\* The time a node takes to be visited, in clock units, by how fast the
\* machine is.
Paces == {1, 2}

\* The largest depth random_move and alphabeta are compared at.
MaxDepth == 2

\* Options() with the fields the search reads.
SearchOptions(ab, h, t) ==
    Options("CompVsComp", DefaultMaxTurns, NoValue)
        @@ [alpha_beta |-> ab, heuristic |-> h, max_time |-> t]

SearchInit ==
    /\ game = NewGame
    /\ script \in Openings
    /\ options \in {SearchOptions(ab, h, t) :
                        ab \in BOOLEAN, h \in Heuristic, t \in 1..MaxTime}
    /\ pc = "loop"
    /\ success = FALSE
    /\ result = <<>>
    /\ moves_applied = 0
    /\ previous = NewGame
    /\ stats = NewStats
    /\ search = Idle

\* A move of the opening, typed at the keyboard.
Opening ==
    /\ pc = "loop"
    /\ game.turns_played < Len(script)
    /\ Record(human_turn(game, script[game.turns_played + 1]))
    /\ UNCHANGED <<options, pc, script, stats, search>>

\* The live game, whose board is board 1 of the search.
LiveGame(s) == [game EXCEPT !.board = s.boards[1]]

\* suggest_move up to the call of random_move or alphabeta on a clone of the
\* live game.
SuggestMove ==
    /\ pc = "loop"
    /\ has_winner(game, options) = NoPlayer
    /\ game.turns_played >= Len(script)
    /\ game.turns_played < Len(script) + MaxFree
    /\ \E pace \in Paces :
        search' = [(IF options.alpha_beta = FALSE
                    THEN Started(game, "random_move", MinimaxDepth, search.now, pace)
                    ELSE Started(game, "alphabeta", AlphaBetaDepth, search.now, pace))
                   EXCEPT !.visited_before = search.visited_before + search.visits]
    /\ pc' = "search"
    /\ UNCHANGED <<game, options, success, result, moves_applied, previous, script, stats>>

\* The snapshot of the node of frame k.
Snapshot(k) == deref(search.stack[k].current_game, search.boards)

\* A call of random_move or alphabeta is about to run its head.
VisitsNode ==
    /\ pc = "search"
    /\ search.ret = <<>>
    /\ search.stack # <<>>
    /\ search.stack[Len(search.stack)].at = "head"

\* A call of random_move or alphabeta starts: the node is counted and
\* tested, and returns at once or enters its loop.
EnterNode ==
    /\ VisitsNode
    /\ LET after == head(search, stats, game, options)
       IN  /\ search' = after.search
           /\ stats' = after.stats
           /\ game' = LiveGame(after.search)
    /\ UNCHANGED <<options, pc, success, result, moves_applied, previous, script>>

\* The loop of a node has a move to try next.
ExpandsNode ==
    /\ pc = "search"
    /\ search.ret = <<>>
    /\ search.stack # <<>>
    /\ LET f == search.stack[Len(search.stack)]
       IN  f.at = "loop" /\ ~f.break /\ f.next <= Len(f.moves)

\* The loop of a node clones the snapshot, performs its next move on the
\* clone and calls the search on it.
ExpandChild ==
    /\ ExpandsNode
    /\ search' = descend(search)
    /\ game' = LiveGame(search')
    /\ UNCHANGED <<options, pc, success, result, moves_applied, previous, script, stats>>

\* The call on a child has returned to the loop of its parent.
TakeResult ==
    /\ pc = "search"
    /\ search.ret # <<>>
    /\ search.stack # <<>>
    /\ search' = resume(search)
    /\ UNCHANGED <<game, options, pc, success, result, moves_applied, previous, script, stats>>

\* The loop of a node is over: the node returns.
ReturnNode ==
    /\ pc = "search"
    /\ search.ret = <<>>
    /\ search.stack # <<>>
    /\ LET f == search.stack[Len(search.stack)]
       IN  f.at = "loop" /\ (f.break \/ f.next > Len(f.moves))
    /\ search' = leave(search)
    /\ game' = LiveGame(search')
    /\ UNCHANGED <<options, pc, success, result, moves_applied, previous, script, stats>>

\* The search as it stands when the call on the root has returned found.
Finished(s, found) ==
    [s EXCEPT !.ret = <<>>, !.boards = <<>>, !.score = found.score, !.move = found.move]

\* The root has returned: the rest of suggest_move, then computer_turn
\* performs the move, and main exits when there is none.
ComputerMoves ==
    /\ pc = "search"
    /\ search.stack = <<>>
    /\ search.ret # <<>>
    /\ search.minimax_score = <<>>
    /\ search.depth \in {MinimaxDepth, AlphaBetaDepth}
    /\ LET found == search.ret[1]
           elapsed_seconds == search.now - search.start_time
       IN  /\ search' = Finished(search, found)
           /\ stats' = [stats EXCEPT !.total_seconds = @ + elapsed_seconds]
           /\ IF found.move # NoMove
              THEN /\ Record(computer_turn(game, found.move))
                   /\ pc' = "loop"
              ELSE /\ pc' = "exit"
                   /\ UNCHANGED <<game, success, result, moves_applied, previous>>
    /\ UNCHANGED <<options, script>>

SearchSteps == EnterNode \/ ExpandChild \/ TakeResult \/ ReturnNode

SearchNext == Opening \/ SuggestMove \/ SearchSteps \/ ComputerMoves \/ GameOver

SearchSpec == SearchInit /\ [][SearchNext]_vars

\* The search runs on: the program is the only thread, and every step of a
\* call in progress is taken when it can be.  WF_vars(A) is
\* []<>(~ENABLED <<A>>_vars) \/ []<><<A>>_vars; for the two steps that compute
\* a position it is written so, with the guard of the step for ENABLED: the
\* rest of the step is an assignment that changes search.
FairSearchSpec ==
    /\ SearchSpec
    /\ WF_vars(TakeResult)
    /\ WF_vars(ReturnNode)
    /\ []<>(~VisitsNode) \/ []<><<EnterNode>>_vars
    /\ []<>(~ExpandsNode) \/ []<><<ExpandChild>>_vars

(***************************************************************************)
(* random_move and alphabeta on the same position at the same depth, no    *)
(* time test being true: first the one, then the other.                    *)
(***************************************************************************)
\* The positions the two are compared on: the later positions of Endgame,
\* where few units are left.
ComparedLines == {SubSeq(Endgame, 1, k) : k \in 10..Len(Endgame)}

CompareInit ==
    /\ game = NewGame
    /\ script \in ComparedLines
    /\ options \in {SearchOptions(TRUE, h, MaxTime) : h \in Heuristic}
    /\ pc = "loop"
    /\ success = FALSE
    /\ result = <<>>
    /\ moves_applied = 0
    /\ previous = NewGame
    /\ stats = NewStats
    /\ search = Idle

\* random_move(self.clone(), depth, maximize, start_time) on the position the
\* opening leaves, on a clock that stands still.
Minimax ==
    /\ pc = "loop"
    /\ game.turns_played = Len(script)
    /\ \E depth \in 0..MaxDepth :
        search' = Started(game, "random_move", depth, 0, 0)
    /\ pc' = "search"
    /\ UNCHANGED <<game, options, success, result, moves_applied, previous, script, stats>>

\* random_move has returned: alphabeta(self.clone(), depth, MIN_HEURISTIC_SCORE,
\* MAX_HEURISTIC_SCORE, maximize, start_time) on the same position, at the
\* same depth.
AlphaBeta ==
    /\ pc = "search"
    /\ search.stack = <<>>
    /\ search.ret # <<>>
    /\ search.algorithm = "random_move"
    /\ search' = [Started(game, "alphabeta", search.depth, 0, 0) EXCEPT
                    !.minimax_score = <<search.ret[1].score>>]
    /\ UNCHANGED <<game, options, pc, success, result, moves_applied, previous, script, stats>>

\* alphabeta has returned.
Compared ==
    /\ pc = "search"
    /\ search.stack = <<>>
    /\ search.ret # <<>>
    /\ search.algorithm = "alphabeta"
    /\ search.minimax_score # <<>>
    /\ search' = Finished(search, search.ret[1])
    /\ pc' = "done"
    /\ UNCHANGED <<game, options, success, result, moves_applied, previous, script, stats>>

CompareNext == Opening \/ Minimax \/ SearchSteps \/ AlphaBeta \/ Compared

CompareSpec == CompareInit /\ [][CompareNext]_vars

(***************************************************************************)
(* The search of the computer's move with time to spare: from the end of   *)
(* Endgame, where few units are left, random_move and alphabeta run to the *)
(* depth suggest_move starts them with.                                    *)
(***************************************************************************)
\* An Options.max_time no search of the model comes close to, in clock units.
LongTime == 100000

\* The values of Options.max_depth and Options.min_depth a game is started
\* with: the defaults of the dataclass, and a shallower pair.
DepthChoices == {<<4, 2>>, <<1, 0>>}

DeepInit ==
    /\ game = NewGame
    /\ script = Endgame
    /\ options \in {SearchOptions(ab, h, LongTime)
                        @@ [max_depth |-> d[1], min_depth |-> d[2]] :
                     ab \in BOOLEAN, h \in Heuristic, d \in DepthChoices}
    /\ pc = "loop"
    /\ success = FALSE
    /\ result = <<>>
    /\ moves_applied = 0
    /\ previous = NewGame
    /\ stats = NewStats
    /\ search = Idle

DeepSearchSpec == DeepInit /\ [][SearchNext]_vars

\* The search runs on, as in FairSearchSpec.
FairDeepSearchSpec ==
    /\ DeepSearchSpec
    /\ WF_vars(TakeResult)
    /\ WF_vars(ReturnNode)
    /\ []<>(~VisitsNode) \/ []<><<EnterNode>>_vars
    /\ []<>(~ExpandsNode) \/ []<><<ExpandChild>>_vars

(***************************************************************************)
(* Helpers of the properties.                                              *)
(***************************************************************************)
Range(seq) == {seq[i] : i \in 1..Len(seq)}

\* The first piece of the text of the last perform_move ("" before any).
Kind == IF result = <<>> THEN "" ELSE result[1]

\* The cell a coordinate text of a result names.
CellOf(text) == CHOOSE c \in Coords : to_string(c) = text

\* The health a unit is left with after losing amount, 0 at least.
HealthAfter(unit, amount) ==
    IF unit.health - amount < 0 THEN 0 ELSE unit.health - amount

\* The content of a cell whose unit is left with health h.
LeftWith(unit, h) == IF h = 0 THEN None ELSE [unit EXCEPT !.health = h]

\* coords is a legal attack in g.
IsAttack(g, coords) ==
    /\ is_valid_move(g, coords)
    /\ coords[1] # coords[2]
    /\ get(g, coords[2]) # None
    /\ get(g, coords[2]).player # get(g, coords[1]).player

\* coords is a legal self-destruct in g.
IsSelfDestruct(g, coords) == is_valid_move(g, coords) /\ coords[1] = coords[2]

\* c is in the 3x3 block around src.
InBlock(c, src) == Abs(c[1] - src[1]) <= 1 /\ Abs(c[2] - src[2]) <= 1

(***************************************************************************)
(* C1: perform_move on a pair that is_valid_move rejects returns            *)
(* (False, "invalid move") and leaves the game (board, next_player,         *)
(* turns_played, both has-AI flags) as it was.                              *)
(***************************************************************************)
C1_InvalidMoveIsRejected ==
    \A coords \in InputPairs :
        ~is_valid_move(game, coords) =>
            LET out == perform_move(game, coords)
            IN  /\ out.ok = FALSE
                /\ out.msg = <<"invalid move">>
                /\ out.game = game

\* A turn in which an illegal pair was tried, after a move had been applied.
C1_Witness ==
    /\ success = FALSE
    /\ result = <<"invalid move">>
    /\ game.turns_played >= 1
    /\ game.board # InitialBoard

(***************************************************************************)
(* C2: the moves of move_candidates, and of generate_valid_moves, are       *)
(* exactly the pairs of cells of the board that is_valid_move accepts.      *)
(***************************************************************************)
C2_CandidatesAreTheValidMoves ==
    LET valid == {coords \in Coords \X Coords : is_valid_move(game, coords)}
    IN  /\ Range(move_candidates(game)) = valid
        /\ Range(generate_valid_moves(game)) = valid

\* A position in which the player to move has moves of all four kinds:
\* a step, an attack, a repair and a self-destruct.
C2_Witness ==
    LET moves == Range(generate_valid_moves(game))
    IN  /\ \E m \in moves : get(game, m[2]) = None
        /\ \E m \in moves : IsAttack(game, m)
        /\ \E m \in moves :
              /\ m[1] # m[2] /\ get(game, m[2]) # None
              /\ get(game, m[2]).player = game.next_player
        /\ \E m \in moves : m[1] = m[2]

(***************************************************************************)
(* C3: a legal attack leaves the target with max(0, h_dst - damage of the   *)
(* source's kind on the target's kind) and the source with max(0, h_src -   *)
(* damage of the target's kind on the source's kind), both from the units   *)
(* before the attack; a unit left with 0 is removed; the source is damaged  *)
(* also when the target dies.                                               *)
(***************************************************************************)
C3_AttackIsMutual ==
    \A coords \in InputPairs :
        IsAttack(game, coords) =>
            LET s == get(game, coords[1])
                d == get(game, coords[2])
                out == perform_move(game, coords)
            IN  /\ out.ok
                /\ out.game.board[coords[2]] =
                       LeftWith(d, HealthAfter(d, DamageEntry(s.type, d.type)))
                /\ out.game.board[coords[1]] =
                       LeftWith(s, HealthAfter(s, DamageEntry(d.type, s.type)))

\* An attack was applied that removed both the source and the target.
C3_Witness ==
    /\ success
    /\ Kind = "attack from "
    /\ game.board[CellOf(result[2])] = None
    /\ game.board[CellOf(result[4])] = None

(***************************************************************************)
(* C4: a self-destruct removes the source whatever its health; every other  *)
(* unit in the 3x3 block around it that is on the board loses 2, clamped    *)
(* at 0, and is removed at 0; the cells outside the block are unchanged.    *)
(***************************************************************************)
C4_SelfDestructBlast ==
    \A coords \in InputPairs :
        IsSelfDestruct(game, coords) =>
            LET src == coords[1]
                out == perform_move(game, coords)
            IN  /\ out.ok
                /\ out.game.board[src] = None
                /\ \A c \in Coords \ {src} :
                      out.game.board[c] =
                          IF InBlock(c, src) /\ game.board[c] # None
                          THEN LeftWith(game.board[c], HealthAfter(game.board[c], 2))
                          ELSE game.board[c]

\* A self-destruct was applied that damaged more units than are left in its
\* block: a neighbour reached 0 and was removed.
C4_Witness ==
    /\ success
    /\ Kind = "self-destruct at "
    /\ LET src == CellOf(result[2])
       IN  /\ game.board[src] = None
           /\ result[4] > 2 * Cardinality({c \in Coords : InBlock(c, src) /\ game.board[c] # None})
           /\ \E c \in Coords : InBlock(c, src) /\ game.board[c] # None

(***************************************************************************)
(* C5: after any sequence of perform_move calls from the opening layout,    *)
(* and after a mod_health call with any delta on top of it, every unit on   *)
(* the board has a health in 1..9: Unit.mod_health keeps a health of 0..9   *)
(* in 0..9 whatever the delta, and Game.mod_health removes in the same call *)
(* a unit that reaches 0, so that no cell holds a dead unit.                *)
(***************************************************************************)
HealthOK(g) == \A c \in Coords : g.board[c] # None => g.board[c].health \in 1..9

C5_HealthStaysInRange ==
    /\ HealthOK(game)
    /\ \A h \in 0..9, delta \in -MaxDelta..MaxDelta :
          Unit_mod_health(Unit("Attacker", "Program", h), delta).health \in 0..9
    /\ \A c \in Coords, delta \in -MaxDelta..MaxDelta :
          LET after == mod_health(game, c, delta)
          IN  /\ after.board[c] # None => after.board[c].health \in 1..9
              /\ [after.board EXCEPT ![c] = game.board[c]] = game.board
              /\ game.board[c] # None =>
                    after.board[c] =
                        LeftWith(game.board[c],
                                 IF game.board[c].health + delta < 0 THEN 0
                                 ELSE IF game.board[c].health + delta > 9 THEN 9
                                 ELSE game.board[c].health + delta)

\* A repair of 3 was applied to a unit of health 8, which is left with 9.
C5_Witness ==
    /\ success
    /\ Kind = "repair from "
    /\ result[6] = 3
    /\ previous.board[CellOf(result[4])].health = 8
    /\ game.board[CellOf(result[4])].health = 9

(***************************************************************************)
(* C6: in every state reached by perform_move from the opening layout,      *)
(* attacker_has_ai holds exactly when an attacker AI is on the board and    *)
(* defender_has_ai exactly when a defender AI is; the last perform_move     *)
(* changed a flag only from true to false, and only the flag of a side      *)
(* whose AI it removed.                                                     *)
(***************************************************************************)
AIOnBoard(g, player) ==
    \E c \in Coords : g.board[c] # None /\ g.board[c].type = "AI" /\ g.board[c].player = player

FlagsInSync(g) ==
    /\ g.attacker_has_ai = AIOnBoard(g, "Attacker")
    /\ g.defender_has_ai = AIOnBoard(g, "Defender")

C6_FlagsFollowTheBoard ==
    /\ FlagsInSync(game)
    /\ FlagsInSync(previous)
    /\ game.attacker_has_ai => previous.attacker_has_ai
    /\ game.defender_has_ai => previous.defender_has_ai
    /\ game.attacker_has_ai # previous.attacker_has_ai =>
          AIOnBoard(previous, "Attacker") /\ ~AIOnBoard(game, "Attacker")
    /\ game.defender_has_ai # previous.defender_has_ai =>
          AIOnBoard(previous, "Defender") /\ ~AIOnBoard(game, "Defender")

\* A move was applied that removed the defender's AI and left the
\* attacker's on the board.
C6_Witness ==
    /\ success
    /\ previous.defender_has_ai
    /\ ~game.defender_has_ai
    /\ game.attacker_has_ai
    /\ AIOnBoard(game, "Attacker")
    /\ ~AIOnBoard(game, "Defender")

(***************************************************************************)
(* C7: when max_turns is configured and turns_played >= max_turns,          *)
(* has_winner returns Defender, whatever the two has-AI flags are.          *)
(***************************************************************************)
TurnLimitReached(g, opts) == opts.max_turns # NoLimit /\ g.turns_played >= opts.max_turns

C7_TurnLimitGivesDefender ==
    \A a, d \in BOOLEAN :
        LET g == [game EXCEPT !.attacker_has_ai = a, !.defender_has_ai = d]
        IN  TurnLimitReached(g, options) => has_winner(g, options) = "Defender"

\* The turn limit is reached in a state whose flags alone would make the
\* attacker the winner.
C7_Witness ==
    /\ TurnLimitReached(game, options)
    /\ game.attacker_has_ai
    /\ ~game.defender_has_ai
    /\ has_winner(game, options) = "Defender"

(***************************************************************************)
(* C8, as stated: in every reachable state in which the defender's AI has   *)
(* been removed and the attacker's AI is still on the board, has_winner     *)
(* returns Attacker.                                                        *)
(***************************************************************************)
C8_AsStated ==
    (~AIOnBoard(game, "Defender") /\ AIOnBoard(game, "Attacker")) =>
        has_winner(game, options) = "Attacker"

(***************************************************************************)
(* C8, as the code has it: in every reachable state in which the            *)
(* defender's AI has been removed and the attacker's AI is still on the     *)
(* board, has_winner returns Attacker when the turn limit is not reached    *)
(* (max_turns is not configured, or turns_played < max_turns), and          *)
(* Defender when it is.                                                     *)
(***************************************************************************)
C8_AttackerWinsBelowTheLimit ==
    (~AIOnBoard(game, "Defender") /\ AIOnBoard(game, "Attacker")) =>
        has_winner(game, options) =
            IF TurnLimitReached(game, options) THEN "Defender" ELSE "Attacker"

\* The defender's AI was removed by an attack below a configured turn
\* limit: the attacker has won.
C8_Witness ==
    /\ ~AIOnBoard(game, "Defender")
    /\ AIOnBoard(game, "Attacker")
    /\ Kind = "attack from "
    /\ ~TurnLimitReached(game, options)
    /\ has_winner(game, options) = "Attacker"

(***************************************************************************)
(* C9, as stated: no sequence of legal moves from the opening layout        *)
(* reaches a state in which attacker_has_ai and defender_has_ai are both    *)
(* false.                                                                   *)
(***************************************************************************)
C9_AsStated == ~(~game.attacker_has_ai /\ ~game.defender_has_ai)

(***************************************************************************)
(* C9, as the code has it: a state of the game in which both flags are      *)
(* false is entered only from a state in which both are true, by one        *)
(* applied attack or self-destruct that removes the two AIs together, and   *)
(* has_winner returns Defender in it.                                       *)
(***************************************************************************)
C9_BothAIsFallTogether ==
    [][(~game'.attacker_has_ai /\ ~game'.defender_has_ai /\ game' # game) =>
          /\ game.attacker_has_ai /\ game.defender_has_ai
          /\ success'
          /\ result'[1] \in {"attack from ", "self-destruct at "}
          /\ has_winner(game', options') = "Defender"]_vars

\* An attack between the two AIs was applied that removed both.
C9_Witness ==
    /\ ~game.attacker_has_ai
    /\ ~game.defender_has_ai
    /\ ~AIOnBoard(game, "Attacker")
    /\ ~AIOnBoard(game, "Defender")
    /\ Kind = "attack from "
    /\ has_winner(game, options) = "Defender"

(***************************************************************************)
(* C10: a human or computer turn flips next_player and adds 1 to            *)
(* turns_played exactly when its perform_move succeeded, and changes        *)
(* neither when it failed; in every state of the game loop turns_played is  *)
(* the number of moves applied so far and next_player is Attacker iff       *)
(* turns_played is even.                                                    *)
(***************************************************************************)
TurnAdvances(out) ==
    /\ out.ok = is_valid_move(game, out.mv)
    /\ out.after.next_player =
          IF out.ok THEN PlayerNext(game.next_player) ELSE game.next_player
    /\ out.after.turns_played =
          IF out.ok THEN game.turns_played + 1 ELSE game.turns_played

C10_TurnsCountAppliedMoves ==
    /\ game.turns_played = moves_applied
    /\ (game.next_player = "Attacker") = (game.turns_played % 2 = 0)
    /\ \A mv \in InputPairs :
          /\ LET out == human_turn(game, mv)
             IN  TurnAdvances([ok |-> out.ok, mv |-> mv, after |-> out.game])
          /\ LET out == computer_turn(game, mv)
             IN  TurnAdvances([ok |-> out.ok, mv |-> mv, after |-> out.game])
    /\ computer_turn(game, NoMove).game = game

\* The computer's move was applied and the defender's first try, sent by
\* the broker, was not: one turn played, the defender still to move.
C10_Witness ==
    /\ options.game_type = "CompVsDefender"
    /\ moves_applied = 1
    /\ game.turns_played = 1
    /\ game.next_player = "Defender"
    /\ ~success
    /\ result = <<"invalid move">>

(***************************************************************************)
(* Helpers of the legality properties: the unit of the side to move at a   *)
(* cell, the cells one orthogonal step away, an enemy beside a cell.        *)
(***************************************************************************)
OwnUnitAt(src) == game.board[src] # None /\ game.board[src].player = game.next_player

StepAway(src, dst) == Abs(src[1] - dst[1]) + Abs(src[2] - dst[2]) = 1

EnemyBeside(src) ==
    \E c \in Coords :
        /\ StepAway(src, c)
        /\ game.board[c] # None
        /\ game.board[c].player # game.board[src].player

RestrictedKinds == {"AI", "Firewall", "Program"}

\* The cells a restricted unit of the player may step to: down or right for
\* the defender, up or left for the attacker.
AllowedSteps(player, src) ==
    IF player = "Defender"
    THEN {<<src[1] + 1, src[2]>>, <<src[1], src[2] + 1>>}
    ELSE {<<src[1] - 1, src[2]>>, <<src[1], src[2] - 1>>}

(***************************************************************************)
(* C11: when an AI, Firewall or Program of the side to move has an enemy    *)
(* unit in an orthogonally adjacent cell, is_valid_move returns false for   *)
(* every empty destination, the adjacent empty cell in the owner's allowed  *)
(* direction included.                                                      *)
(***************************************************************************)
C11_EngagedRestrictedUnitStays ==
    \A src \in Coords :
        (/\ OwnUnitAt(src)
         /\ game.board[src].type \in RestrictedKinds
         /\ EnemyBeside(src)) =>
            \A dst \in Coords :
                game.board[dst] = None => ~is_valid_move(game, CoordPair(src, dst))

\* An engaged AI, Firewall or Program of the side to move has a free cell
\* in its allowed direction, and the step to it is rejected.
C11_Witness ==
    \E src \in Coords :
        /\ OwnUnitAt(src)
        /\ game.board[src].type \in RestrictedKinds
        /\ EnemyBeside(src)
        /\ \E dst \in AllowedSteps(game.next_player, src) \cap Coords :
              /\ game.board[dst] = None
              /\ ~is_valid_move(game, CoordPair(src, dst))

(***************************************************************************)
(* C12: for a destination other than the source that holds a unit of the    *)
(* side to move, is_valid_move returns true if and only if source and       *)
(* destination are orthogonally adjacent, the target's health is below 9    *)
(* and repair_table[src.type][dst.type] is not 0.                           *)
(***************************************************************************)
C12_RepairLegality ==
    \A src \in Coords :
        OwnUnitAt(src) =>
            \A dst \in Coords \ {src} :
                OwnUnitAt(dst) =>
                    (is_valid_move(game, CoordPair(src, dst)) <=>
                        /\ StepAway(src, dst)
                        /\ game.board[dst].health < 9
                        /\ RepairEntry(game.board[src].type, game.board[dst].type) # 0)

\* The side to move has a legal repair, an adjacent repairable pair whose
\* target is at health 9, and an adjacent damaged target its neighbour
\* cannot repair; the last two are rejected.
C12_Witness ==
    /\ \E src, dst \in Coords :
          /\ OwnUnitAt(src) /\ OwnUnitAt(dst) /\ StepAway(src, dst)
          /\ is_valid_move(game, CoordPair(src, dst))
    /\ \E src, dst \in Coords :
          /\ OwnUnitAt(src) /\ OwnUnitAt(dst) /\ StepAway(src, dst)
          /\ game.board[dst].health = 9
          /\ RepairEntry(game.board[src].type, game.board[dst].type) # 0
          /\ ~is_valid_move(game, CoordPair(src, dst))
    /\ \E src, dst \in Coords :
          /\ OwnUnitAt(src) /\ OwnUnitAt(dst) /\ StepAway(src, dst)
          /\ game.board[dst].health < 9
          /\ RepairEntry(game.board[src].type, game.board[dst].type) = 0
          /\ ~is_valid_move(game, CoordPair(src, dst))

(***************************************************************************)
(* C13: for an empty destination on the board, is_valid_move returns true   *)
(* exactly when the destination is one orthogonal step away and either the  *)
(* source is a Tech or a Virus (engaged or not), or it is an AI, Firewall   *)
(* or Program with no enemy beside it and the step is down or right for a   *)
(* defender, up or left for an attacker; diagonal and two-cell steps are    *)
(* never legal.                                                             *)
(***************************************************************************)
C13_StepLegality ==
    \A src \in Coords :
        OwnUnitAt(src) =>
            \A dst \in Coords :
                game.board[dst] = None =>
                    (is_valid_move(game, CoordPair(src, dst)) <=>
                        /\ StepAway(src, dst)
                        /\ \/ game.board[src].type \in {"Tech", "Virus"}
                           \/ /\ ~EnemyBeside(src)
                              /\ dst \in AllowedSteps(game.board[src].player, src))

\* The side to move has a Tech or Virus with an enemy beside it and a legal
\* step, and a free AI, Firewall or Program with a legal step in its
\* direction and a free cell against its direction that is rejected.
C13_Witness ==
    /\ \E src, dst \in Coords :
          /\ OwnUnitAt(src) /\ game.board[src].type \in {"Tech", "Virus"}
          /\ EnemyBeside(src)
          /\ game.board[dst] = None
          /\ is_valid_move(game, CoordPair(src, dst))
    /\ \E src, dst, back \in Coords :
          /\ OwnUnitAt(src) /\ game.board[src].type \in RestrictedKinds
          /\ ~EnemyBeside(src)
          /\ game.board[dst] = None /\ is_valid_move(game, CoordPair(src, dst))
          /\ game.board[back] = None /\ StepAway(src, back)
          /\ ~is_valid_move(game, CoordPair(src, back))

\* The total a side gets on a board when each of its units is worth
\* Worth(unit).
SideTotal(board, player, Worth(_)) ==
    LET cells == iter_rectangle(from_dim(dim))
        Sum[i \in 0..Len(cells)] ==
            IF i = 0 THEN 0
            ELSE Sum[i - 1] + (IF board[cells[i]].player = player
                               THEN Worth(board[cells[i]]) ELSE 0)
    IN  Sum[Len(cells)]

\* What the three heuristics give a unit.
WorthE0(unit) == IF unit.type = "AI" THEN 9999 ELSE 3

WorthE1(unit) ==
    CASE unit.type = "AI" -> 9999
      [] unit.type \in {"Tech", "Virus"} -> 500
      [] unit.type = "Program" -> 300
      [] unit.type = "Firewall" -> 50

WorthE2(unit) == IF unit.type = "AI" THEN 9999 * unit.health ELSE unit.health

Balance(board, Worth(_)) ==
    SideTotal(board, "Attacker", Worth) - SideTotal(board, "Defender", Worth)

\* The cells where the player's AI stands in g.
AICell(g, player) ==
    {c \in Coords : g.board[c].type = "AI" /\ g.board[c].player = player}

\* g with nothing on the board but the two AIs, at health h.
LoneAIs(g, h) ==
    [g EXCEPT !.board =
        [c \in Coords |->
            IF g.board[c].type = "AI" THEN [g.board[c] EXCEPT !.health = h]
            ELSE None]]

\* e() of g is the balance of the board under each heuristic, and 0 with the
\* AIs alone at the health of either.
IsTheBalance(g) ==
    /\ e(g, [heuristic |-> "E0"]) = Balance(g.board, WorthE0)
    /\ e(g, [heuristic |-> "E1"]) = Balance(g.board, WorthE1)
    /\ e(g, [heuristic |-> "E2"]) = Balance(g.board, WorthE2)
    /\ (AICell(g, "Attacker") # {} /\ AICell(g, "Defender") # {}) =>
            \A c \in AICell(g, "Attacker") \cup AICell(g, "Defender") :
                \A k \in Heuristic :
                    e(LoneAIs(g, g.board[c].health), [heuristic |-> k]) = 0

\* The three heuristics disagree on g and none of them is zero there.
Disagree(g) ==
    /\ e(g, [heuristic |-> "E0"]) # 0
    /\ e(g, [heuristic |-> "E1"]) \notin {0, e(g, [heuristic |-> "E0"])}
    /\ e(g, [heuristic |-> "E2"]) \notin
            {0, e(g, [heuristic |-> "E0"]), e(g, [heuristic |-> "E1"])}

\* C16: e() is the attacker's total minus the defender's total, a unit being
\* worth 9999 (AI) or 3 under E0, 9999 (AI), 500 (Tech, Virus), 300 (Program)
\* or 50 (Firewall) under E1, and its health, times 9999 for the AI, under
\* E2; a board with only one AI per side at equal health scores 0.  It is
\* stated of every position the search visits, where e() is applied.
C16_HeuristicIsTheBalance ==
    VisitsNode => IsTheBalance(Snapshot(Len(search.stack)))

\* The search visits a position where units were lost and damaged, both AIs
\* stand, the three heuristics disagree and none of them is zero.
C16_Witness ==
    /\ VisitsNode
    /\ Disagree(Snapshot(Len(search.stack)))
    /\ AICell(Snapshot(Len(search.stack)), "Attacker") # {}
    /\ AICell(Snapshot(Len(search.stack)), "Defender") # {}

\* The replies the broker can hold while the game waits for turn
\* turns_played + 1: a move of an earlier turn, of the last turn played (the
\* computer's own post), of the awaited turn or of a later one.
RepliesOfAnyTurn ==
    {[from |-> coords[1], to |-> coords[2], turn |-> game.turns_played + d] :
        coords \in InputPairs, d \in (-1)..2}

\* A step that changes the game while a human turn is served by the broker.
BrokerMoveApplied ==
    /\ Playing /\ HumanToMove /\ options.broker # NoValue
    /\ game' # game

\* C17: with a broker, get_move_from_broker returns the move of a reply
\* whose turn field is turns_played + 1 and none for any other turn; the game
\* changes in a broker turn only by a move of the awaited turn, and is left
\* as it was (board, next_player, turns_played) while the turn retries.
C17_BrokerTurnField ==
    /\ [](options.broker # NoValue =>
            \A data \in RepliesOfAnyTurn :
                get_move_from_broker(game, options, data) =
                    IF data.turn = game.turns_played + 1
                    THEN CoordPair(data.from, data.to) ELSE NoMove)
    /\ [][BrokerMoveApplied =>
            \E data \in BrokerReplies :
                /\ data # NoData
                /\ data.turn = game.turns_played + 1
                /\ human_turn(game, CoordPair(data.from, data.to)).ok
                /\ game' = human_turn(game, CoordPair(data.from, data.to)).game]_vars

\* A broker move of the awaited turn has been applied, from a position where
\* the same move under the turn number just played is refused.
C17_Witness ==
    /\ options.broker # NoValue
    /\ success
    /\ game.turns_played = previous.turns_played + 1
    /\ options.game_type = "CompVsDefender" => previous.next_player = "Defender"
    /\ \E coords \in InputPairs :
        /\ human_turn(previous, coords).game = game
        /\ get_move_from_broker(previous, options,
               [from |-> coords[1], to |-> coords[2],
                turn |-> previous.turns_played]) = NoMove

\* The number of nodes counted in the statistics.
Evaluations(st) ==
    LET Sum[k \in 0..(AlphaBetaDepth + 1)] ==
            IF k = 0 THEN 0 ELSE Sum[k - 1] + st.evaluations_per_depth[k]
    IN  Sum[AlphaBetaDepth + 1]

\* C14: started at the same depth on the same position, no time test being
\* true, alphabeta with the bounds MIN_HEURISTIC_SCORE and MAX_HEURISTIC_SCORE
\* returns the score random_move returns.
C14_AlphaBetaScoresAsMinimax ==
    (pc = "done" /\ search.minimax_score # <<>>) =>
        search.score = search.minimax_score[1]

\* Both have returned for a depth of two or more, alphabeta after visiting
\* fewer nodes than random_move, and the score is not zero.
C14_Witness ==
    /\ pc = "done"
    /\ search.minimax_score # <<>>
    /\ search.depth >= 2
    /\ search.visits < Evaluations(stats) - search.visits
    /\ search.score # 0

\* suggest_move has returned no move and main has exited.
ReturnedNoMove == pc = "exit" /\ search.move = NoMove

\* C15, as the claim states it: suggest_move returns no move only when the
\* side to move has no legal move, whenever the time test first becomes true.
C15_AsStated ==
    ReturnedNoMove => generate_valid_moves(game) = <<>>

\* suggest_move returned no move because the time test was true at the root,
\* the only node visited, in a position where the side to move has moves.
C15_Witness ==
    /\ ReturnedNoMove
    /\ search.visits = 1
    /\ search.timed_out
    /\ generate_valid_moves(game) # <<>>

\* The nodes of the search in progress that have entered their loop.
ExpandedNodes == {k \in 1..Len(search.stack) : search.stack[k].at = "loop"}

\* C18, as the claim states it: in random_move and alphabeta a node whose own
\* snapshot is a finished game returns at once (the heuristic of the
\* snapshot, no move, the remaining depth) and expands no children.
C18_AsStated ==
    \A k \in ExpandedNodes : ~is_finished(Snapshot(k), options)

\* A node whose own snapshot is a finished game is in its loop and has had a
\* child visited: the game its method was called on was not finished.
C18_Witness ==
    \E k \in ExpandedNodes :
        /\ is_finished(Snapshot(k), options)
        /\ ~is_finished(SelfOf(search, game, k), options)
        /\ search.stack[k].next > 1

\* A step of suggest_move or of the search it runs, from the clone of the
\* live game to the return of the root.
SearchStep == (pc = "loop" /\ pc' = "search") \/ (pc = "search" /\ pc' = "search")

\* The snapshot of a node that has not run yet is the position its parent's
\* loop started from with the parent's current move performed on it.
FromParentPosition(k) ==
    LET parent == search.stack[k - 1]
    IN  Snapshot(k) = perform_move(parent.entry[1], parent.moves[parent.next]).game

\* C19: suggest_move and the search leave the live game as it was (board,
\* next_player, turns_played and the two has-AI flags), whatever they count
\* in the statistics; a move performed on a child's clone leaves the board
\* and the fields of the parent as its loop found them, and every child is
\* the parent's position with one move performed on it.
C19_SearchLeavesGamesAlone ==
    /\ [][SearchStep => game' = game]_vars
    /\ [](pc = "search" =>
            /\ \A k \in ExpandedNodes : Snapshot(k) = search.stack[k].entry[1]
            /\ \A k \in 2..Len(search.stack) :
                    search.stack[k].at = "head" => FromParentPosition(k))

\* The search has counted nodes, a node has had one child searched and its
\* next child is on the stack with a board that differs from its own, and
\* the live game has moves the search tries.
C19_Witness ==
    /\ pc = "search"
    /\ stats # NewStats
    /\ game.board = search.boards[1]
    /\ \E k \in 2..Len(search.stack) :
        /\ search.stack[k - 1].next > 1
        /\ search.stack[k].at = "head"
        /\ Snapshot(k).board # Snapshot(k - 1).board

\* The time test of the node about to be visited is true.
TimeUp == search.now - search.start_time >= options.max_time - Margin

\* The call on top of the stack returns as a leaf: the heuristic of its
\* snapshot, no move, its remaining depth, and no frame of its own is left.
ReturnsAsLeaf ==
    LET k == Len(search.stack)
    IN  /\ search'.stack = SubSeq(search.stack, 1, k - 1)
        /\ search'.ret = <<[score |-> e(Snapshot(k), options), move |-> NoMove,
                            depth |-> search.stack[k].depth]>>

\* The call on the root has returned a score.
RootReturned == pc = "search" /\ search.stack = <<>> /\ search.ret # <<>>

\* C20: the clock never going back, a node at which the time test is true
\* returns the heuristic of its snapshot without expanding, so does every
\* node visited after the test has been true once in the search, and the
\* call on the root returns a score all the same.
C20_TimeCutoffEndsTheSearch ==
    /\ [][VisitsNode /\ (TimeUp \/ search.timed_out) => ReturnsAsLeaf]_vars
    /\ [](pc = "search" /\ search.timed_out => TimeUp /\ ~search.expanded_late)
    /\ (pc = "search" /\ search.timed_out) ~> RootReturned

\* The root has returned a score and a move after a search in which the
\* time test became true below the root and nodes were visited after it.
C20_Witness ==
    /\ RootReturned
    /\ search.timed_out
    /\ search.ret[1].move # NoMove
    /\ search.visits > Len(generate_valid_moves(game)) + 1

\* The counters of the statistics after one more node at level k.
Counted(st, k) == [st.evaluations_per_depth EXCEPT ![k] = @ + 1]

\* C21: every node visit adds exactly 1 to the counter of the statistics keyed
\* by the node's distance from the root of its search, the root being level
\* 1; no other step changes a counter, none is decreased or reset between
\* the searches of a game, and the sum of the counters is the number of
\* nodes visited by all the searches so far.
C21_StatisticsCountNodes ==
    /\ [][IF VisitsNode
          THEN stats'.evaluations_per_depth = Counted(stats, Len(search.stack))
          ELSE stats'.evaluations_per_depth = stats.evaluations_per_depth]_vars
    /\ [](Evaluations(stats) = search.visited_before + search.visits)

\* The second search of a game has visited nodes at three levels, the
\* counters holding the nodes of the first search too.
C21_Witness ==
    /\ pc = "search"
    /\ search.visited_before > 0
    /\ Len(search.stack) >= 3
    /\ search.visits > 3
    /\ stats.evaluations_per_depth[1] = 2
    /\ stats.evaluations_per_depth[3] > 0

\* The depth suggest_move starts the search of the options with.
StartDepth == IF options.alpha_beta = FALSE THEN MinimaxDepth ELSE AlphaBetaDepth

NodeReturned == pc = "search" /\ search.ret # <<>>

\* C23, as the claim states it: every score random_move or alphabeta returns,
\* at any node, is a finite integer strictly between MIN_HEURISTIC_SCORE and
\* MAX_HEURISTIC_SCORE, never plus or minus infinity.
C23_AsStated ==
    NodeReturned =>
        /\ search.ret[1].score > MIN_HEURISTIC_SCORE
        /\ search.ret[1].score < MAX_HEURISTIC_SCORE

\* A node below the root returns an infinite score with a move: the score
\* came up from a child that had no move to try.
C23_Witness ==
    /\ NodeReturned
    /\ search.stack # <<>>
    /\ search.ret[1].score \in {PlusInf, MinusInf}
    /\ search.ret[1].move # NoMove

\* The source and the destination of the last move performed, from its text.
LastSrc == CellOf(result[2])

LastDst == CellOf(result[4])

\* The last perform_move left the has-AI flags as they were.
FlagsKept ==
    /\ game.attacker_has_ai = previous.attacker_has_ai
    /\ game.defender_has_ai = previous.defender_has_ai

\* C24: a legal move onto an empty destination relocates the source unit
\* with its owner, kind and health, leaves the source cell empty, and changes
\* no other cell, no health and neither has-AI flag.
C24_MovementRelocates ==
    (success /\ Kind = "move from ") =>
        /\ previous.board[LastSrc] # None
        /\ previous.board[LastDst] = None
        /\ game.board[LastDst] = previous.board[LastSrc]
        /\ game.board[LastSrc] = None
        /\ \A c \in Coords \ {LastSrc, LastDst} : game.board[c] = previous.board[c]
        /\ FlagsKept

\* A damaged unit has just moved, other units standing around it.
C24_Witness ==
    /\ success /\ Kind = "move from "
    /\ game.board[LastDst].health < 9
    /\ \E c \in Coords \ {LastSrc, LastDst} :
            game.board[c] # None /\ StepAway(c, LastDst)

\* C25: a legal repair raises the target's health to min(9, h_dst +
\* repair_table[src.kind][dst.kind]), strictly above h_dst, and changes
\* nothing else: the repairing unit, every other cell and both has-AI flags
\* are as before.
C25_RepairRaisesTarget ==
    (success /\ Kind = "repair from ") =>
        LET s == previous.board[LastSrc]
            d == previous.board[LastDst]
            h == d.health + RepairEntry(s.type, d.type)
        IN  /\ game.board[LastDst] = [d EXCEPT !.health = IF h > 9 THEN 9 ELSE h]
            /\ game.board[LastDst].health > d.health
            /\ \A c \in Coords \ {LastDst} : game.board[c] = previous.board[c]
            /\ FlagsKept

\* A repair has just been applied whose table value went over 9: the target
\* is at 9, having gained less than the table gives, and another unit on the
\* board is damaged.
C25_Witness ==
    /\ success /\ Kind = "repair from "
    /\ game.board[LastDst].health = 9
    /\ previous.board[LastDst].health
            + RepairEntry(previous.board[LastSrc].type, previous.board[LastDst].type) > 9
    /\ \E c \in Coords \ {LastDst} : game.board[c] # None /\ game.board[c].health < 9

\* The game is over: has_winner names a player.
Over == has_winner(game, options) # NoPlayer

\* The turn limit of the options lies within the turns the model plays.
LimitInReach ==
    options.max_turns # NoLimit /\ options.max_turns <= Len(script) + MaxFree

\* C26: with max_turns configured and every turn ending up applying a legal
\* move, the loop reaches a state where has_winner names a player after at
\* most max_turns applied moves, and applies no move after that state.  A
\* computer's turn that applies no move ends the program.
C26_LoopEndsWithinTheLimit ==
    /\ [](options.max_turns # NoLimit =>
            /\ moves_applied <= options.max_turns
            /\ moves_applied = options.max_turns => Over)
    /\ [][Over => moves_applied' = moves_applied /\ game' = game]_vars
    /\ LimitInReach ~> (Over \/ pc = "exit")

\* The loop has stopped on the turn limit, both AIs standing, after the
\* moves of an opening and more: the last of max_turns moves was applied.
C26_Witness ==
    /\ pc = "done"
    /\ moves_applied = options.max_turns
    /\ moves_applied > Len(script) /\ Len(script) > 0
    /\ game.attacker_has_ai /\ game.defender_has_ai

\* The cell is the source of one of the moves of the sequence.
MovesFrom(moves, c) == \E i \in 1..Len(moves) : moves[i] = CoordPair(c, c)

\* C27: in an unfinished game the side to move has a legal move: its AI is
\* on the board, the self-destruct of the AI is a valid move, and it is
\* among move_candidates and generate_valid_moves, which are not empty.
C27_SideToMoveHasAMove ==
    has_winner(game, options) = NoPlayer =>
        /\ AICell(game, game.next_player) # {}
        /\ \A c \in AICell(game, game.next_player) :
              /\ is_valid_move(game, CoordPair(c, c))
              /\ MovesFrom(move_candidates(game), c)
              /\ MovesFrom(generate_valid_moves(game), c)

\* An unfinished game after free play in which the AI of the side to move is
\* damaged and engaged in combat, so that it cannot step away.
C27_Witness ==
    /\ Playing
    /\ moves_applied > Len(script)
    /\ \E c \in AICell(game, game.next_player) :
          /\ game.board[c].health < 9
          /\ Engaged(game, c)
          /\ \A d \in Coords : d # c /\ game.board[d] = None
                                => ~is_valid_move(game, CoordPair(c, d))

\* suggest_move is about to return a move to computer_turn.
ReturnsAMove == RootReturned /\ search.ret[1].move # NoMove

\* C28: the move suggest_move returns is a valid move of next_player on the
\* live game, the perform_move of computer_turn succeeds on it and the turn
\* advances; computer_turn hands no move back that it has not applied.
C28_SuggestedMoveIsApplied ==
    /\ [](ReturnsAMove =>
            /\ is_valid_move(game, search.ret[1].move)
            /\ get(game, search.ret[1].move[1]).player = game.next_player
            /\ perform_move(game, search.ret[1].move).ok)
    /\ [][ReturnsAMove =>
            /\ success'
            /\ game' = next_turn(perform_move(game, search.ret[1].move).game)
            /\ game'.turns_played = game.turns_played + 1
            /\ game'.next_player = PlayerNext(game.next_player)
            /\ moves_applied' = moves_applied + 1
            /\ pc' = "loop"]_vars

\* computer_turn has applied the move of a search that the clock cut short:
\* an attack, the turn passed to the other player.
C28_Witness ==
    /\ pc = "loop"
    /\ search.move # NoMove
    /\ search.timed_out
    /\ success
    /\ Kind = "attack from "
    /\ game = next_turn(perform_move(previous, search.move).game)

\* The two units are of the same owner and kind.
SameUnit(u, v) == u # None /\ v # None /\ u.player = v.player /\ u.type = v.type

\* The unit on cell c came from the game before the last perform_move: it
\* stood on c, or the move was a movement that brought it to c.
CameFromPrevious(c) ==
    \/ SameUnit(game.board[c], previous.board[c])
    \/ /\ success /\ Kind = "move from " /\ c = LastDst
       /\ SameUnit(game.board[c], previous.board[LastSrc])

\* The cells where the player has a unit of the kind in g.
UnitsOf(g, player, t) ==
    {c \in Coords : g.board[c].player = player /\ g.board[c].type = t}

\* C29: no perform_move creates or converts a unit: no player has more
\* units of any kind after it than before it, nor more than in the opening
\* layout, each side has one AI at most, and every unit on the board was
\* there before the move with the same owner and kind.
C29_NoUnitCreatedOrConverted ==
    /\ \A player \in {"Attacker", "Defender"} : \A t \in UnitTypes :
          LET after == Cardinality(UnitsOf(game, player, t))
          IN  /\ after <= Cardinality(UnitsOf(previous, player, t))
              /\ after <= Cardinality(UnitsOf(NewGame, player, t))
              /\ t = "AI" => after <= 1
    /\ \A c \in Coords : game.board[c] # None => CameFromPrevious(c)

\* A movement in free play after units of both sides have left the board.
C29_Witness ==
    /\ success /\ Kind = "move from "
    /\ moves_applied > Len(script)
    /\ game.board[LastDst] # None
    /\ \A player \in {"Attacker", "Defender"} :
          \E t \in UnitTypes :
              Cardinality(UnitsOf(game, player, t)) < Cardinality(UnitsOf(NewGame, player, t))

\* The cell the unit on c stood on before the last perform_move.
Origin(c) == IF SameUnit(game.board[c], previous.board[c]) THEN c ELSE LastSrc

\* C30: no legal move takes an AI, a Firewall or a Program of the defender
\* to a lower row or column, nor one of the attacker to a higher row or
\* column, for as long as the unit is on the board.
C30_RestrictedUnitsKeepTheirDirection ==
    \A c \in Coords :
        game.board[c].type \in RestrictedKinds =>
            /\ CameFromPrevious(c)
            /\ game.board[c].player = "Defender" =>
                  c[1] >= Origin(c)[1] /\ c[2] >= Origin(c)[2]
            /\ game.board[c].player = "Attacker" =>
                  c[1] <= Origin(c)[1] /\ c[2] <= Origin(c)[2]

\* In free play an AI has moved: it stands on the destination, one step
\* from the source, which is empty.
C30_Witness ==
    /\ success /\ Kind = "move from "
    /\ moves_applied > Len(script)
    /\ game.board[LastDst].type = "AI"
    /\ Origin(LastDst) = LastSrc /\ LastSrc # LastDst
    /\ game.board[LastSrc] = None

====
